---- MODULE Spec2Model ----
(***************************************************************************)
(* Model of the %%mojo cell magic of src/utils/notebook.py.                *)
(*                                                                         *)
(* One invocation of mojo(line, cell) is a straight line of steps inside a *)
(* `with tempfile.TemporaryDirectory()` block.  pc names the statement the *)
(* invocation is about to execute.  Text is a sequence of code points,     *)
(* a byte stream is a sequence of integers 0..255; str.encode/bytes.decode *)
(* are UTF-8 (the default of both), restricted to one- and two-byte        *)
(* sequences, which is all the alphabets below can produce.                *)
(***************************************************************************)
EXTENDS Integers, Sequences, FiniteSets, TLC

\* ---- bounds ------------------------------------------------------------
MaxCalls == 2
MaxCellLen == 2
MaxOutLen == 2
MaxErrLen == 1

\* ---- input alphabets ----------------------------------------------------
\* newline, "A", (c) U+00A9: what a cell or the line argument may contain
CellChars == {10, 65, 169}
\* newline, "A", lead byte C2, continuation bytes A0 / A9:
\*   C2 A0 is U+00A0 (no-break space, whitespace for str.strip),
\*   C2 A9 is U+00A9 (not whitespace), a lone C2, A0 or A9 is not UTF-8
Bytes == {10, 65, 194, 160, 169}
\* killed by SIGSEGV, success, failure
ExitCodes == {-11, 0, 1}

SeqsUpTo(S, n) == UNION {[1..k -> S] : k \in 0..n}

Cells == SeqsUpTo(CellChars, MaxCellLen)
Lines == {<<>>, <<65>>}

NoResult == [returncode |-> 0, stdout |-> <<>>, stderr |-> <<>>, valid |-> FALSE]
NoError == [path |-> <<>>, command |-> <<>>, stdout |-> <<>>, stderr |-> <<>>, valid |-> FALSE]

\* ---- pure helpers -------------------------------------------------------
\* str.isspace for the code points below U+0800
IsSpace(c) == c \in (9..13) \cup (28..32) \cup {133, 160}

RECURSIVE LStrip(_)
LStrip(t) == IF t # <<>> /\ IsSpace(Head(t)) THEN LStrip(Tail(t)) ELSE t

RECURSIVE RStrip(_)
RStrip(t) ==
    IF t # <<>> /\ IsSpace(t[Len(t)]) THEN RStrip(SubSeq(t, 1, Len(t) - 1)) ELSE t

\* str.strip()
Strip(t) == RStrip(LStrip(t))

\* bytes.decode(): UTF-8, strict; ok = FALSE is UnicodeDecodeError
RECURSIVE Decode(_)
Decode(bs) ==
    IF bs = <<>> THEN [ok |-> TRUE, text |-> <<>>]
    ELSE LET b == Head(bs) IN
         IF b < 128
         THEN LET r == Decode(Tail(bs)) IN
              [ok |-> r.ok, text |-> IF r.ok THEN <<b>> \o r.text ELSE <<>>]
         ELSE IF b \in 194..223 /\ Len(bs) >= 2 /\ bs[2] \in 128..191
         THEN LET r == Decode(Tail(Tail(bs))) IN
              [ok |-> r.ok,
               text |-> IF r.ok THEN <<(b - 192) * 64 + (bs[2] - 128)>> \o r.text
                        ELSE <<>>]
         ELSE [ok |-> FALSE, text |-> <<>>]

\* what a text-mode file object stores for a str: its UTF-8 encoding
RECURSIVE Encode(_)
Encode(t) ==
    IF t = <<>> THEN <<>>
    ELSE LET c == Head(t) IN
         (IF c < 128 THEN <<c>> ELSE <<192 + (c \div 64), 128 + (c % 64)>>)
         \o Encode(Tail(t))

\* Path(tempdir) / name
Join(d, n) == [dir |-> d, name |-> n]
\* str(path)
Str(p) == <<p.dir, p.name>>

\* mojo_path = path / "cell.mojo"
MojoPath(d) == Join(d, "cell.mojo")
InitPath(d) == Join(d, "__init__.mojo")

\* a handler that writes the magic's line argument in front of the cell
WrittenWithLine(l, c) == Encode(l \o c)

\* f.write(cell) in mojo(line, cell): the bytes that reach the file
Written(l, c) == Encode(c)

\* command = ["run", str(mojo_path)]
Command(p) == <<"run", Str(p)>>

\* a handler that runs the command again after a failure
BranchRetry(rc) == IF rc = 0 THEN "show" ELSE "run"

\* a handler that tests `if result.returncode:`
BranchInverted(rc) == IF rc # 0 THEN "show" ELSE "raise"

\* `if not result.returncode:` chooses the branch
Branch(rc) == IF rc = 0 THEN "show" ELSE "raise"

\* a handler that tests `if stdout:`
ShouldPrintNonEmpty(t) == t # <<>>

\* `if stdout.strip():`
ShouldPrint(t) == Strip(t) # <<>>

\* a handler that calls print(stdout)
PrintedNewline(t) == t \o <<10>>

\* print(stdout, end=""): the text one print call sends to sys.stdout
Printed(t) == t \o <<>>

\* MojoCompilationError(mojo_path, command, stdout, stderr)
MojoCompilationError(p, c, o, e) ==
    [path |-> p, command |-> c, stdout |-> o, stderr |-> e, valid |-> TRUE]

\* a directory made with mkdtemp() and never removed
KeepFiles(fs, d) == fs

\* TemporaryDirectory.__exit__: the directory tree is removed
Cleanup(fs, d) == [p \in {q \in DOMAIN fs : q.dir # d} |-> fs[p]]

\* ---- state --------------------------------------------------------------
VARIABLES
    pc,        \* statement the invocation is about to execute
    calls,     \* invocations started so far (names the temporary directory)
    line,      \* the line argument
    cell,      \* the cell argument
    tempdir,   \* name bound by the with statement, 0 outside
    dirs,      \* directories that exist
    files,     \* path -> [content, open] for the files that exist
    command,   \* the local `command`, <<>> before line 71
    result,    \* the local `result`
    runs,      \* calls of subprocess_run_mojo in this invocation
    output,    \* print calls of this invocation, in order
    exc,       \* exception in flight / delivered: its type name, or "none"
    err        \* the MojoCompilationError instance

vars == <<pc, calls, line, cell, tempdir, dirs, files, command, result, runs,
          output, exc, err>>

Init ==
    /\ pc = "idle"
    /\ calls = 0
    /\ line = <<>>
    /\ cell = <<>>
    /\ tempdir = 0
    /\ dirs = {}
    /\ files = <<>>
    /\ command = <<>>
    /\ result = NoResult
    /\ runs = 0
    /\ output = <<>>
    /\ exc = "none"
    /\ err = NoError

Locals == <<line, cell, tempdir, command, result, runs, output, exc, err>>

\* ---- the handler --------------------------------------------------------
\* line 59: the notebook calls mojo(line, cell); TemporaryDirectory() makes
\* a fresh directory
Call ==
    /\ pc = "idle"
    /\ calls < MaxCalls
    /\ \E l \in Lines, c \in Cells :
         /\ line' = l
         /\ cell' = c
    /\ calls' = calls + 1
    /\ tempdir' = calls + 1
    /\ dirs' = dirs \cup {calls + 1}
    /\ pc' = "open"
    /\ command' = <<>>
    /\ result' = NoResult
    /\ runs' = 0
    /\ output' = <<>>
    /\ exc' = "none"
    /\ err' = NoError
    /\ UNCHANGED files

\* line 64: open(mojo_path, "w") creates the file, empty
OpenFile ==
    /\ pc = "open"
    /\ files' = (MojoPath(tempdir) :> [content |-> <<>>, open |-> TRUE]) @@ files
    /\ pc' = "write"
    /\ UNCHANGED <<calls, dirs, Locals>>

\* line 64 raising OSError: nothing was created
OpenFails ==
    /\ pc = "open"
    /\ exc' = "OSError"
    /\ pc' = "exit"
    /\ UNCHANGED <<calls, dirs, files, line, cell, tempdir, command, result,
                   runs, output, err>>

\* line 65: f.write(cell)
WriteFile ==
    /\ pc = "write"
    /\ files' = [files EXCEPT ![MojoPath(tempdir)].content = Written(line, cell)]
    /\ pc' = "close"
    /\ UNCHANGED <<calls, dirs, Locals>>

\* line 65 raising OSError: the inner with closes the file on the way out
WriteFails ==
    /\ pc = "write"
    /\ files' = [files EXCEPT ![MojoPath(tempdir)].open = FALSE]
    /\ exc' = "OSError"
    /\ pc' = "exit"
    /\ UNCHANGED <<calls, dirs, line, cell, tempdir, command, result, runs,
                   output, err>>

\* end of the inner with block: the file is closed
CloseFile ==
    /\ pc = "close"
    /\ files' = [files EXCEPT ![MojoPath(tempdir)].open = FALSE]
    /\ pc' = "touch"
    /\ UNCHANGED <<calls, dirs, Locals>>

\* a handler without the touch() call
TouchInitSkipped ==
    /\ pc = "touch"
    /\ pc' = "run"
    /\ UNCHANGED <<calls, dirs, files, Locals>>

\* line 68: (path / "__init__.mojo").touch()
TouchInit ==
    /\ pc = "touch"
    /\ files' = (InitPath(tempdir) :> [content |-> <<>>, open |-> FALSE]) @@ files
    /\ pc' = "run"
    /\ UNCHANGED <<calls, dirs, Locals>>

\* line 68 raising OSError
TouchFails ==
    /\ pc = "touch"
    /\ exc' = "OSError"
    /\ pc' = "exit"
    /\ UNCHANGED <<calls, dirs, files, line, cell, tempdir, command, result,
                   runs, output, err>>

\* the results subprocess_run_mojo(command, capture_output=True) can return
Results ==
    [returncode : ExitCodes,
     stdout : SeqsUpTo(Bytes, MaxOutLen),
     stderr : SeqsUpTo(Bytes, MaxErrLen),
     valid : {TRUE}]

\* lines 71-74: build the command, run it, take the branch
RunMojo ==
    /\ pc = "run"
    /\ command' = Command(MojoPath(tempdir))
    /\ runs' = runs + 1
    /\ \E r \in Results :
         /\ result' = r
         /\ pc' = Branch(r.returncode)
    /\ UNCHANGED <<calls, dirs, files, line, cell, tempdir, output, exc, err>>

\* line 72 raising (the runner cannot start the executable)
RunFails ==
    /\ pc = "run"
    /\ command' = Command(MojoPath(tempdir))
    /\ runs' = runs + 1
    /\ exc' = "OSError"
    /\ pc' = "exit"
    /\ UNCHANGED <<calls, dirs, files, line, cell, tempdir, result, output, err>>

\* lines 76-78: decode stdout, print it unless it is blank
Show ==
    /\ pc = "show"
    /\ LET d == Decode(result.stdout) IN
         IF ~d.ok
         THEN /\ exc' = "UnicodeDecodeError"
              /\ UNCHANGED output
         ELSE /\ output' = IF ShouldPrint(d.text)
                           THEN Append(output, Printed(d.text))
                           ELSE output
              /\ UNCHANGED exc
    /\ pc' = "exit"
    /\ UNCHANGED <<calls, dirs, files, line, cell, tempdir, command, result,
                   runs, err>>

\* lines 86-91: decode both streams, build and raise the error
Raise ==
    /\ pc = "raise"
    /\ LET o == Decode(result.stdout)
           e == Decode(result.stderr) IN
         IF o.ok /\ e.ok
         THEN /\ err' = MojoCompilationError(MojoPath(tempdir), command,
                                             o.text, e.text)
              /\ exc' = "MojoCompilationError"
         ELSE /\ exc' = "UnicodeDecodeError"
              /\ UNCHANGED err
    /\ pc' = "exit"
    /\ UNCHANGED <<calls, dirs, files, line, cell, tempdir, command, result,
                   runs, output>>

\* a handler that removes the directory by hand on the normal path only
ExitWithLeakOnError ==
    /\ pc = "exit"
    /\ files' = IF exc = "none" THEN Cleanup(files, tempdir) ELSE files
    /\ dirs' = IF exc = "none" THEN dirs \ {tempdir} ELSE dirs
    /\ pc' = IF exc = "none" THEN "returned" ELSE "raised"
    /\ UNCHANGED <<calls, Locals>>

\* end of the outer with block, reached by return and by every exception:
\* the directory is removed, then the caller sees the outcome
ExitWith ==
    /\ pc = "exit"
    /\ files' = Cleanup(files, tempdir)
    /\ dirs' = dirs \ {tempdir}
    /\ pc' = IF exc = "none" THEN "returned" ELSE "raised"
    /\ UNCHANGED <<calls, Locals>>

\* the notebook takes the outcome; the handler can be called again
Finish ==
    /\ pc \in {"returned", "raised"}
    /\ pc' = "idle"
    /\ UNCHANGED <<calls, dirs, files, Locals>>

Next ==
    \/ Call
    \/ OpenFile
    \/ OpenFails
    \/ WriteFile
    \/ WriteFails
    \/ CloseFile
    \/ TouchInit
    \/ TouchFails
    \/ RunMojo
    \/ RunFails
    \/ Show
    \/ Raise
    \/ ExitWith
    \/ Finish

Spec == Init /\ [][Next]_vars

\* ---- shorthands for the properties ---------------------------------------
Ended == pc \in {"returned", "raised"}
Exists(p) == p \in DOMAIN files

\* ---- properties ----------------------------------------------------------
\* the process returned an exit code in this invocation
Ran == result.valid
Succeeded == Ran /\ result.returncode = 0
Failed == Ran /\ result.returncode # 0
\* the text the captured stdout decodes to (when it does)
StdoutOk == Decode(result.stdout).ok
StdoutText == Decode(result.stdout).text
StderrOk == Decode(result.stderr).ok
StderrText == Decode(result.stderr).text
HasNonSpace(t) == \E i \in 1..Len(t) : ~IsSpace(t[i])

\* everything this invocation sent to notebook output, concatenated
RECURSIVE Concat(_)
Concat(ss) == IF ss = <<>> THEN <<>> ELSE Head(ss) \o Concat(Tail(ss))

\* C1 as stated: on exit code 0 with stdout decoding to X, the handler emits
\* exactly X, for every X, whitespace-only X included.
C1_EmitsExactlyX ==
    (Ended /\ Succeeded /\ StdoutOk) => Concat(output) = StdoutText

\* C1 amended: on exit code 0 with stdout decoding to X, the handler emits
\* exactly X when X has a non-whitespace character, and emits nothing when X
\* is empty or whitespace-only.
C1_EmitsXUnlessBlank ==
    (Ended /\ Succeeded /\ StdoutOk) =>
        /\ pc = "returned"
        /\ HasNonSpace(StdoutText) => Concat(output) = StdoutText
        /\ ~HasNonSpace(StdoutText) => Concat(output) = <<>>

C1_Witness ==
    /\ pc = "returned"
    /\ Succeeded
    /\ result.stdout = <<10, 65>>
    /\ Concat(output) = <<10, 65>>

\* C2: on a non-zero exit the handler raises MojoCompilationError carrying
\* the generated path, the command ["run", <that path>], and both captured
\* streams verbatim.
C2_RaisesCompilationError ==
    (Ended /\ Failed) =>
        /\ pc = "raised"
        /\ exc = "MojoCompilationError"
        /\ err.valid
        /\ err.path = [dir |-> tempdir, name |-> "cell.mojo"]
        /\ err.command = <<"run", <<tempdir, "cell.mojo">>>>
        /\ Encode(err.stdout) = result.stdout
        /\ Encode(err.stderr) = result.stderr

\* C3: once an invocation has ended (returned, raised MojoCompilationError,
\* or propagated another exception), and so between and after all
\* invocations, no temporary directory and no file of one exists.
C3_TempDirRemoved ==
    (pc \in {"idle", "returned", "raised"}) => (dirs = {} /\ DOMAIN files = {})

C3_Witness ==
    /\ pc = "raised"
    /\ exc = "OSError"
    /\ runs = 1
    /\ calls = 2
    /\ dirs = {}

\* C4: an invocation in which the process returned an exit code ends by
\* raising iff the code is non-zero, the error is then MojoCompilationError,
\* and on exit code 0 it returns normally whatever bytes were captured.
C4_OneErrorPath ==
    (Ended /\ Ran) =>
        /\ (pc = "raised") <=> (result.returncode # 0)
        /\ (pc = "raised") => exc = "MojoCompilationError"
        /\ (result.returncode = 0) => (pc = "returned" /\ exc = "none")

\* C5: the process is invoked exactly once in every invocation that reaches
\* the run statement, whatever the exit code; after a non-zero exit the only
\* step before the block is left is the raise: no second run, no file or
\* output change.
C5_RunsOnce ==
    /\ [](/\ runs <= 1
          /\ (pc \in {"show", "raise"}) => runs = 1
          /\ (Ended /\ command # <<>>) => runs = 1)
    /\ [][(Failed /\ pc = "raise") =>
            (pc' = "exit" /\ runs' = runs /\ files' = files /\ output' = output)]_vars

C5_Witness ==
    /\ pc = "raised"
    /\ Failed
    /\ result.returncode = 1
    /\ runs = 1

\* the two files as the process must find them
FilesReady ==
    /\ Exists([dir |-> tempdir, name |-> "cell.mojo"])
    /\ ~files[[dir |-> tempdir, name |-> "cell.mojo"]].open
    /\ Decode(files[[dir |-> tempdir, name |-> "cell.mojo"]].content)
         = [ok |-> TRUE, text |-> cell]
    /\ Exists([dir |-> tempdir, name |-> "__init__.mojo"])
    /\ files[[dir |-> tempdir, name |-> "__init__.mojo"]]
         = [content |-> <<>>, open |-> FALSE]

\* C6: when the process is invoked, cell.mojo is written and closed and an
\* empty __init__.mojo exists beside it; from the invocation of the process
\* on, no file is created or modified (until the directory is removed).
C6_FilesBeforeRun ==
    /\ []((pc = "run" \/ (runs = 1 /\ pc \in {"show", "raise", "exit"}))
            => FilesReady)
    /\ [][(runs' = 1) =>
            \A p \in DOMAIN files' : p \in DOMAIN files /\ files'[p] = files[p]]_vars

C6_Witness ==
    /\ pc = "show"
    /\ runs = 1
    /\ cell = <<169>>
    /\ files[MojoPath(tempdir)] = [content |-> <<194, 169>>, open |-> FALSE]
    /\ Exists(InitPath(tempdir))
    /\ command[2][1] = tempdir

\* the outcome of an invocation as a function of what the process returned
ExpectedOutcome(r, d) ==
    LET o == Decode(r.stdout)
        e == Decode(r.stderr) IN
    IF r.returncode = 0
    THEN IF o.ok
         THEN [exc |-> "none",
               output |-> IF HasNonSpace(o.text) THEN <<o.text>> ELSE <<>>,
               err |-> NoError]
         ELSE [exc |-> "UnicodeDecodeError", output |-> <<>>, err |-> NoError]
    ELSE IF o.ok /\ e.ok
         THEN [exc |-> "MojoCompilationError", output |-> <<>>,
               err |-> [path |-> [dir |-> d, name |-> "cell.mojo"],
                        command |-> <<"run", <<d, "cell.mojo">>>>,
                        stdout |-> o.text, stderr |-> e.text, valid |-> TRUE]]
         ELSE [exc |-> "UnicodeDecodeError", output |-> <<>>, err |-> NoError]

\* C7: the file the process is run on holds the cell text exactly, and
\* neither the file, the command nor the outcome depends on the line
\* argument: each is the same function of the cell, the directory and the
\* process's result for every line.
C7_CellVerbatim ==
    /\ (runs = 1 /\ pc \in {"show", "raise", "exit"}) =>
          /\ Decode(files[[dir |-> tempdir, name |-> "cell.mojo"]].content)
               = [ok |-> TRUE, text |-> cell]
          /\ command = <<"run", <<tempdir, "cell.mojo">>>>
    /\ (Ended /\ Ran) =>
          [exc |-> exc, output |-> output, err |-> err]
            = ExpectedOutcome(result, tempdir)

C7_Witness ==
    /\ pc = "show"
    /\ line = <<65>>
    /\ cell = <<10, 169>>
    /\ files[MojoPath(tempdir)].content = <<10, 194, 169>>
    /\ command = Command(MojoPath(tempdir))

\* C8: on a non-zero exit nothing is written to notebook output; the
\* captured stdout is only in the raised MojoCompilationError.
C8_NoOutputOnFailure ==
    /\ Failed => output = <<>>
    /\ (Ended /\ Failed /\ exc = "MojoCompilationError") =>
          err.stdout = StdoutText

C8_Witness ==
    /\ pc = "raised"
    /\ Failed
    /\ exc = "MojoCompilationError"
    /\ err.stdout = <<65, 10>>
    /\ output = <<>>

\* C9: on exit code 0 the handler prints iff the decoded stdout has a
\* non-whitespace character; then it prints it once, whole and unstripped,
\* with nothing appended; otherwise it prints nothing.
C9_PrintsIffNonBlank ==
    (Ended /\ Succeeded /\ StdoutOk) =>
        /\ Len(output) = (IF HasNonSpace(StdoutText) THEN 1 ELSE 0)
        /\ \A i \in 1..Len(output) : output[i] = StdoutText

C9_Witness ==
    /\ pc = "returned"
    /\ Succeeded
    /\ result.stdout = <<194, 160>>
    /\ StdoutText = <<160>>
    /\ output = <<>>

\* C10: the MojoCompilationError is built while the temporary directory
\* exists, and when the caller observes it the path it carries (and names in
\* its command) is of a file that no longer exists.
C10_ErrorPathGone ==
    /\ []((pc = "raised" /\ exc = "MojoCompilationError") =>
            /\ err.valid
            /\ err.command = <<"run", <<err.path.dir, err.path.name>>>>
            /\ ~Exists(err.path)
            /\ err.path.dir \notin dirs)
    /\ [][(err' # err /\ err'.valid) =>
            (err'.path.dir \in dirs /\ Exists(err'.path) /\ pc' = "exit")]_vars

C10_Witness ==
    /\ pc = "raised"
    /\ exc = "MojoCompilationError"
    /\ result.returncode = -11
    /\ err.path = MojoPath(tempdir)
    /\ ~Exists(err.path)
====
